---- MODULE Spec2Model ----
(***************************************************************************)
(* Job distribution and notification core of the imagepod backend:        *)
(* the job table as the executor-facing handlers read and write it         *)
(* (app/services/executor_service.py, app/api/executors.py,                *)
(* app/api/runpod.py, app/api/helpers.py) and the per-executor RabbitMQ    *)
(* wake-up used by the long-poll (app/rabbitmq.py).                        *)
(***************************************************************************)
EXTENDS Integers, Sequences, FiniteSets, TLC

VARIABLES
    jobs,       \* the jobs table: a sequence, the row's id is its index
    endpoints,  \* the endpoints table: id -> row
    last,       \* the last request handled and its HTTP outcome
    broker,     \* the RabbitMQ connection held in app.state.rabbitmq
    queues,     \* broker side: executor id -> its queue "executor.{id}"
    polls,      \* the GET /executors/updates requests, one coroutine each
    handed,     \* history: the ids of the jobs a job-take request has returned
    gpu         \* the GPU node with its job count, and the gpu_jobs table

vars == <<jobs, endpoints, last, broker, queues, polls, handed, gpu>>
store == <<jobs, endpoints>>
transport == <<broker, queues, polls>>

(***************************************************************************)
(* Bounds and input domains                                                *)
(***************************************************************************)
MaxJobs == 1         \* rows in the jobs table, job lifecycle specification
MaxQueued == 2       \* rows in the jobs table, long-poll specifications
NumPolls == 2        \* long-poll requests made
TickSeconds == 60    \* the longest step of the clock

Executors == {1, 2}
EndpointIds == {1, 2}
Users == {1, 2}

\* Python's Optional[T]: None is the empty set, a value v is {v}.
None == {}
Some(v) == {v}
Opt(S) == {None} \cup {Some(v) : v \in S}
Val(o) == CHOOSE v \in o : TRUE

JobStatusEnum == {"IN_QUEUE", "RUNNING", "COMPLETED", "FAILED", "CANCELLED", "TIMED_OUT"}
\* status is Optional[str] in the request schema: any string is a legal input.
StatusInputs == JobStatusEnum \cup {"BOGUS"}
OutputValues == {"o1"}
TimeValues == {7}
InputValues == {"in1"}

ExecutorJobUpdateRequest ==
    [status : Opt(StatusInputs),
     delay_time : Opt(TimeValues),
     execution_time : Opt(TimeValues),
     output_data : Opt(OutputValues)]

JobIds == 1..(MaxJobs + 1)      \* ids a caller may name; the last one never exists
PodIds == EndpointIds \cup {0}  \* pod ids a worker may name; 0 is no endpoint

\* The request just handled: handler, caller, the job id it named, the HTTP
\* status returned and the ids of the jobs in the response body.
Outcome(op, who, job, code, ret) ==
    [op |-> op, who |-> who, job |-> job, code |-> code, ret |-> ret]

(***************************************************************************)
(* executor_service.py                                                     *)
(***************************************************************************)
\* A buggy lookup that forgets the ownership filter.
QueryJobAnyExecutor(js, job_id, executor_id) ==
    IF job_id \in DOMAIN js THEN Some(job_id) ELSE None

\* db.query(Job).filter(Job.id == job_id, Job.executor_id == executor_id).first()
QueryJobForExecutor(js, job_id, executor_id) ==
    IF job_id \in DOMAIN js /\ js[job_id].executor_id = executor_id
    THEN Some(job_id)
    ELSE None

\* The four "if x is not None: job.x = x" assignments.
\* A write that stores every field of the request, the omitted ones as null.
SetJobFieldsOverwriteAll(job, status, delay_time, execution_time, output_data) ==
    [job EXCEPT
        !.status = IF status # None THEN Val(status) ELSE @,
        !.delay_time = IF delay_time # None THEN Val(delay_time) ELSE 0,
        !.execution_time = IF execution_time # None THEN Val(execution_time) ELSE 0,
        !.output_data = output_data]

\* A write that leaves the status of a CANCELLED job alone.
SetJobFieldsKeepCancelled(job, status, delay_time, execution_time, output_data) ==
    [job EXCEPT
        !.status = IF status # None /\ @ # "CANCELLED" THEN Val(status) ELSE @,
        !.delay_time = IF delay_time # None THEN Val(delay_time) ELSE @,
        !.execution_time = IF execution_time # None THEN Val(execution_time) ELSE @,
        !.output_data = IF output_data # None THEN output_data ELSE @]

\* delay_time and execution_time are written to each other's column.
SetJobFieldsSwapTimes(job, status, delay_time, execution_time, output_data) ==
    [job EXCEPT
        !.status = IF status # None THEN Val(status) ELSE @,
        !.delay_time = IF execution_time # None THEN Val(execution_time) ELSE @,
        !.execution_time = IF delay_time # None THEN Val(delay_time) ELSE @,
        !.output_data = IF output_data # None THEN output_data ELSE @]

\* The reported execution_time is added to the stored one.
SetJobFieldsAccumulate(job, status, delay_time, execution_time, output_data) ==
    [job EXCEPT
        !.status = IF status # None THEN Val(status) ELSE @,
        !.delay_time = IF delay_time # None THEN Val(delay_time) ELSE @,
        !.execution_time = IF execution_time # None THEN @ + Val(execution_time) ELSE @,
        !.output_data = IF output_data # None THEN output_data ELSE @]

\* The write of output_data lands in input_data as well.
SetJobFieldsClobberInput(job, status, delay_time, execution_time, output_data) ==
    [job EXCEPT
        !.status = IF status # None THEN Val(status) ELSE @,
        !.delay_time = IF delay_time # None THEN Val(delay_time) ELSE @,
        !.execution_time = IF execution_time # None THEN Val(execution_time) ELSE @,
        !.output_data = IF output_data # None THEN output_data ELSE @,
        !.input_data = IF output_data # None THEN Val(output_data) ELSE @]

SetJobFields(job, status, delay_time, execution_time, output_data) ==
    [job EXCEPT
        !.status = IF status # None THEN Val(status) ELSE @,
        !.delay_time = IF delay_time # None THEN Val(delay_time) ELSE @,
        !.execution_time = IF execution_time # None THEN Val(execution_time) ELSE @,
        !.output_data = IF output_data # None THEN output_data ELSE @]

\* Returns the table after the commit and the row returned (None when not found).
update_job_for_executor(js, executor_id, job_id, status, delay_time, execution_time, output_data) ==
    LET found == QueryJobForExecutor(js, job_id, executor_id)
    IN  IF found = None
        THEN [jobs |-> js, job |-> None]
        ELSE [jobs |-> [js EXCEPT ![job_id] =
                          SetJobFields(@, status, delay_time, execution_time, output_data)],
              job |-> found]

(***************************************************************************)
(* api/executors.py get_updates: the length of the wait                    *)
(***************************************************************************)
Max(a, b) == IF a >= b THEN a ELSE b
Min(a, b) == IF a <= b THEN a ELSE b

MaxWaitSeconds == 60
DefaultTimeout == 20

\* A request without the timeout parameter does not wait.
WaitSecondsAbsentZero(timeout) ==
    Min(Max(0, IF timeout = None THEN 0 ELSE Val(timeout)), MaxWaitSeconds)

\* timeout: float = 20.0;  wait_seconds = min(max(0.0, timeout), 60.0)
WaitSeconds(timeout) ==
    Min(Max(0, IF timeout = None THEN DefaultTimeout ELSE Val(timeout)), MaxWaitSeconds)

(***************************************************************************)
(* rabbitmq.py, the broker's side                                          *)
(*                                                                         *)
(* broker is "none" when app.state.rabbitmq is None, "up" when the         *)
(* connection answers, "down" when every operation on it raises and        *)
(* "stalled" when operations on it neither complete nor raise.             *)
(* A queue is declared auto_delete: it goes, with the messages in it,      *)
(* when its last consumer is cancelled.                                    *)
(***************************************************************************)
NoQueue == [exists |-> FALSE, msgs |-> 0]

\* The consumers registered on the queue executor.{x}.
Consumers(x) == {p \in DOMAIN polls : polls[p].consumer /\ polls[p].executor = x}

\* Who gets a message published to executor.{x}: the broker hands it to one
\* of the queue's consumers at once; with no consumer (0) it stays in the queue.
Receivers(x) ==
    IF broker = "up" /\ Consumers(x) # {} THEN Consumers(x) ELSE {0}

\* n messages are on their way to consumer c's on_message.
Deliver(ps, c, n) == [ps EXCEPT ![c].pending = @ + n]

\* channel(), declare_queue(), default_exchange.publish(), close(), with the
\* broker answering: the queue exists afterwards and holds one more message.
publish_job_notification(qs, executor_id) ==
    [qs EXCEPT ![executor_id] = [exists |-> TRUE, msgs |-> @.msgs + 1]]

(***************************************************************************)
(* Job store collaborators whose code is outside this source tree          *)
(***************************************************************************)
\* publish_job_notification has no handler of its own: what connection.channel(),
\* declare_queue(), publish() or close() raises on a lost connection goes to the caller.
PublishRaises == broker = "down"

NewJob(endpoint_id, input) ==
    [endpoint_id |-> endpoint_id,
     executor_id |-> endpoints[endpoint_id].executor_id,
     status |-> "IN_QUEUE",
     input_data |-> input,
     output_data |-> None,
     delay_time |-> 0,
     execution_time |-> 0]

\* notify(executor_id) of the dispatch gateway: publish, and swallow any failure
\* (the notification is dropped unless the broker is reachable).
notify(qs, executor_id) ==
    IF broker = "up" THEN publish_job_notification(qs, executor_id) ELSE qs

\* Every long-poll of the executor that is inside its wait, its timer not yet
\* due, when a notification is published remembers that one was published
\* (history, not program state).
MarkNotified(ps, executor_id) ==
    [p \in DOMAIN ps |->
        IF /\ broker = "up" /\ ps[p].phase = "waiting" /\ ps[p].executor = executor_id
           /\ ps[p].waited < WaitSeconds(ps[p].timeout)
        THEN [ps[p] EXCEPT !.notified = TRUE]
        ELSE ps[p]]

\* A submission that lets the failure of notify through to the client.
run_job_status_propagating(notify_raised) == IF notify_raised THEN 500 ELSE 200

\* The status the submission answers with once the job row is written: the
\* failure of notify is swallowed.
run_job_status(notify_raised) == 200

\* POST /jobs/{endpoint_id}/run
run_job(user, endpoint_id, input) ==
    /\ IF endpoints[endpoint_id].user_id # user
       THEN /\ last' = Outcome("run_job", user, 0, 404, {})
            /\ UNCHANGED <<jobs, queues, polls>>
       ELSE /\ jobs' = Append(jobs, NewJob(endpoint_id, input))
            /\ \E c \in Receivers(endpoints[endpoint_id].executor_id) :
                  IF c = 0
                  THEN /\ queues' = notify(queues, endpoints[endpoint_id].executor_id)
                       /\ UNCHANGED polls
                  ELSE /\ polls' = Deliver(MarkNotified(polls,
                                               endpoints[endpoint_id].executor_id), c, 1)
                       /\ UNCHANGED queues
            /\ last' = Outcome("run_job", user, Len(jobs) + 1,
                               run_job_status(PublishRaises), {})
    /\ UNCHANGED <<endpoints, broker, handed, gpu>>

\* update_endpoint_status_by_executor(db, endpoint_id, executor_id, status): the
\* endpoint with this id that is assigned to the executor gets the status.
update_endpoint_status_by_executor(eps, endpoint_id, executor_id, status) ==
    IF endpoint_id \in DOMAIN eps /\ eps[endpoint_id].executor_id = executor_id
    THEN [endpoints |-> [eps EXCEPT ![endpoint_id].status = status],
          endpoint |-> Some(endpoint_id)]
    ELSE [endpoints |-> eps, endpoint |-> None]

\* A cancel that overwrites whatever status the job has.
StatusAfterCancelAlways(status) == "CANCELLED"

\* cancelJob mutates the status only if it is IN_QUEUE or RUNNING.
StatusAfterCancel(status) ==
    IF status \in {"IN_QUEUE", "RUNNING"} THEN "CANCELLED" ELSE status

\* GET /jobs/{endpoint_id}/cancel/{job_id}
cancel_job(user, endpoint_id, job_id) ==
    /\ IF \/ endpoints[endpoint_id].user_id # user
          \/ job_id \notin DOMAIN jobs
          \/ jobs[job_id].endpoint_id # endpoint_id
       THEN /\ last' = Outcome("cancel_job", user, job_id, 404, {})
            /\ UNCHANGED jobs
       ELSE /\ jobs' = [jobs EXCEPT ![job_id].status = StatusAfterCancel(@)]
            /\ last' = Outcome("cancel_job", user, job_id, 200, {})
    /\ UNCHANGED <<endpoints, transport, handed, gpu>>

\* The Job a client reads: id, status, input, output, delay_time,
\* execution_time, endpoint_id of the stored row.
JobStatusResponse(js, job_id) ==
    [id |-> job_id,
     status |-> js[job_id].status,
     input |-> js[job_id].input_data,
     output |-> js[job_id].output_data,
     delay_time |-> js[job_id].delay_time,
     execution_time |-> js[job_id].execution_time,
     endpoint_id |-> js[job_id].endpoint_id]

\* GET /jobs/{endpoint_id}/status/{job_id}
get_job_status(user, endpoint_id, job_id) ==
    /\ IF \/ endpoints[endpoint_id].user_id # user
          \/ job_id \notin DOMAIN jobs
          \/ jobs[job_id].endpoint_id # endpoint_id
       THEN last' = Outcome("get_job_status", user, job_id, 404, {})
       ELSE last' = Outcome("get_job_status", user, job_id, 200,
                            {JobStatusResponse(jobs, job_id)})
    /\ UNCHANGED <<store, transport, handed, gpu>>

\* The endpoint is assigned to another executor: only the endpoint row changes.
reassign_endpoint(user, endpoint_id, executor_id) ==
    /\ IF endpoints[endpoint_id].user_id # user
       THEN /\ last' = Outcome("reassign_endpoint", user, endpoint_id, 404, {})
            /\ UNCHANGED endpoints
       ELSE /\ endpoints' = [endpoints EXCEPT ![endpoint_id].executor_id = executor_id]
            /\ last' = Outcome("reassign_endpoint", user, endpoint_id, 200, {})
    /\ UNCHANGED <<jobs, transport, handed, gpu>>

(***************************************************************************)
(* api/executors.py                                                        *)
(***************************************************************************)
\* PATCH /executors/job/{job_id}
update_job(executor, job_id, body) ==
    LET r == update_job_for_executor(jobs, executor, job_id, body.status,
                 body.delay_time, body.execution_time, body.output_data)
    IN  /\ jobs' = r.jobs
        /\ last' = Outcome("update_job", executor, job_id,
                            IF r.job = None THEN 404 ELSE 200, {})
        /\ UNCHANGED <<endpoints, transport, handed, gpu>>


(***************************************************************************)
(* api/runpod.py                                                           *)
(***************************************************************************)
\* db.query(Endpoint).filter(Endpoint.id == pod_id,
\*                           Endpoint.executor_id == executor.id).first()
\* None stands for the HTTPException(404) the helper raises.
_get_endpoint_for_pod(pod_id, executor) ==
    IF pod_id \in DOMAIN endpoints /\ endpoints[pod_id].executor_id = executor
    THEN Some(pod_id)
    ELSE None

\* filter(endpoint_id == endpoint.id, executor_id == executor.id, status == "IN_QUEUE")
QueuedJobsOfEndpoint(endpoint_id, executor) ==
    {j \in DOMAIN jobs : /\ jobs[j].endpoint_id = endpoint_id
                         /\ jobs[j].executor_id = executor
                         /\ jobs[j].status = "IN_QUEUE"}

\* The query with order_by(Job.id.desc()).
FirstByIdDesc(S, limit) ==
    {j \in S : Cardinality({k \in S : k > j}) < limit}

\* .order_by(Job.id.asc()).limit(limit).all()
FirstByIdAsc(S, limit) ==
    {j \in S : Cardinality({k \in S : k < j}) < limit}

\* The rows of the query in the order of order_by(Job.id.asc()), which is the
\* order of the list the handler returns.
RECURSIVE RowsByIdAsc(_)
RowsByIdAsc(S) ==
    IF S = {} THEN <<>>
    ELSE LET first == CHOOSE j \in S : \A k \in S : j <= k
         IN  <<first>> \o RowsByIdAsc(S \ {first})

\* The part of both job-take handlers after the endpoint is resolved: hand out
\* the first `limit` queued jobs and mark them RUNNING.
TakeJobs(op, pod_id, executor, limit) ==
    LET endpoint == _get_endpoint_for_pod(pod_id, executor)
        taken == FirstByIdAsc(QueuedJobsOfEndpoint(pod_id, executor), limit)
    IN  IF endpoint = None
        THEN /\ last' = Outcome(op, executor, 0, 404, <<>>)
             /\ UNCHANGED <<jobs, handed, gpu>>
        ELSE IF taken = {}
        THEN /\ last' = Outcome(op, executor, 0, 204, <<>>)
             /\ UNCHANGED <<jobs, handed, gpu>>
        ELSE /\ jobs' = [j \in DOMAIN jobs |->
                           IF j \in taken THEN [jobs[j] EXCEPT !.status = "RUNNING"]
                           ELSE jobs[j]]
             /\ last' = Outcome(op, executor, 0, 200, RowsByIdAsc(taken))
             /\ handed' = handed \cup taken
             /\ UNCHANGED gpu

\* EndpointStatus = Literal["DEPLOYING", "READY", "UNHEALTHY"]
EndpointStatus == {"DEPLOYING", "READY", "UNHEALTHY"}

\* PATCH /executors/endpoints/{endpoint_id}
update_endpoint_status(endpoint_id, status, executor) ==
    LET updated == update_endpoint_status_by_executor(endpoints, endpoint_id,
                                                      executor, status)
    IN  /\ endpoints' = updated.endpoints
        /\ last' = Outcome("update_endpoint_status", executor, endpoint_id,
                           IF updated.endpoint = None THEN 404 ELSE 200, {})
        /\ UNCHANGED <<jobs, transport, handed, gpu>>

\* A batch handler that uses batch_size as the limit without the floor of 1.
job_take_batch_unfloored(pod_id, batch_size, executor) ==
    /\ TakeJobs("job_take_batch", pod_id, executor, batch_size)
    /\ UNCHANGED <<endpoints, transport>>

\* GET /runpod/job-take-batch/{pod_id}?batch_size=
job_take_batch(pod_id, batch_size, executor) ==
    /\ TakeJobs("job_take_batch", pod_id, executor, Max(1, batch_size))
    /\ UNCHANGED <<endpoints, transport>>

\* GET /runpod/job-take/{pod_id}?batch_size=
job_take_single(pod_id, batch_size, executor) ==
    IF batch_size # None /\ Val(batch_size) # 0 /\ Val(batch_size) > 1
    THEN /\ TakeJobs("job_take", pod_id, executor, Max(1, Val(batch_size)))
         /\ UNCHANGED <<endpoints, transport>>
    ELSE /\ TakeJobs("job_take", pod_id, executor, 1)
         /\ UNCHANGED <<endpoints, transport>>

\* int(job_id): the decimal strings parse, anything else raises ValueError (None).
ParseInt(s) ==
    LET m == {i \in 0..(MaxJobs + 1) : ToString(i) = s}
    IN  IF m = {} THEN None ELSE Some(CHOOSE i \in m : TRUE)

JobIdParams == Opt({ToString(i) : i \in JobIds} \cup {"abc"})
\* The request body after json.loads: None when it does not decode.
JobDoneBodies == Opt([error : BOOLEAN, output : Opt(OutputValues)])

\* POST /runpod/job-done/{pod_id}?job_id=
job_done(pod_id, job_id, raw_body, executor) ==
    LET endpoint == _get_endpoint_for_pod(pod_id, executor)
        job_id_int == ParseInt(Val(job_id))
        job_data == Val(raw_body)
        status_value == IF job_data.error THEN "FAILED" ELSE "COMPLETED"
        r == update_job_for_executor(jobs, executor, Val(job_id_int),
                 Some(status_value), None, None, job_data.output)
    IN  /\ UNCHANGED <<endpoints, transport, handed, gpu>>
        /\ IF raw_body = None \/ job_id = None
           THEN /\ last' = Outcome("job_done", executor, 0, 400, {})
                /\ UNCHANGED jobs
           ELSE IF endpoint = None
           THEN /\ last' = Outcome("job_done", executor, 0, 404, {})
                /\ UNCHANGED jobs
           ELSE IF job_id_int = None
           THEN /\ last' = Outcome("job_done", executor, 0, 400, {})
                /\ UNCHANGED jobs
           ELSE /\ jobs' = r.jobs
                /\ last' = Outcome("job_done", executor, Val(job_id_int),
                               IF r.job = None \/ jobs[Val(job_id_int)].endpoint_id # pod_id
                               THEN 404 ELSE 200, {})

\* POST /runpod/job-stream/{pod_id}?job_id=...: the chunk goes to the Redis
\* list of the job, which is no part of the job table; the job row is only read.
job_stream(pod_id, job_id, raw_body, executor) ==
    LET endpoint == _get_endpoint_for_pod(pod_id, executor)
        job_id_int == ParseInt(Val(job_id))
        job == {j \in DOMAIN jobs : /\ j = Val(job_id_int)
                                    /\ jobs[j].executor_id = executor
                                    /\ jobs[j].endpoint_id = Val(endpoint)}
    IN  /\ UNCHANGED <<store, transport, handed, gpu>>
        /\ IF job_id = None \/ raw_body = None
           THEN last' = Outcome("job_stream", executor, 0, 400, {})
           ELSE IF endpoint = None
           THEN last' = Outcome("job_stream", executor, 0, 404, {})
           ELSE IF job_id_int = None
           THEN last' = Outcome("job_stream", executor, 0, 400, {})
           ELSE IF job = {}
           THEN last' = Outcome("job_stream", executor, Val(job_id_int), 404, {})
           ELSE last' = Outcome("job_stream", executor, Val(job_id_int), 200, {})

BatchSizes == {0, 1, 2}

(***************************************************************************)
(* api/helpers.py and the reads of executor_service.py                     *)
(***************************************************************************)
\* A read that joins the endpoint and filters on the executor the endpoint is
\* assigned to now.
JobsInQueueOfAssignedExecutor(executor_id) ==
    {j \in DOMAIN jobs : /\ endpoints[jobs[j].endpoint_id].executor_id = executor_id
                         /\ jobs[j].status = "IN_QUEUE"}

\* db.query(Job).filter(Job.executor_id == executor_id, Job.status == "IN_QUEUE").all()
get_jobs_in_queue(executor_id) ==
    {j \in DOMAIN jobs : jobs[j].executor_id = executor_id /\ jobs[j].status = "IN_QUEUE"}

\* db.query(Endpoint).filter(Endpoint.executor_id == executor_id,
\*                           Endpoint.status == status).all()
get_endpoints_for_executor_by_status(executor_id, status) ==
    {e \in DOMAIN endpoints :
        endpoints[e].executor_id = executor_id /\ endpoints[e].status = status}

\* A read that marks the jobs it returns as handed out.
RowsAfterClaimingRead(executor_id) ==
    [j \in DOMAIN jobs |->
        IF j \in get_jobs_in_queue(executor_id)
        THEN [jobs[j] EXCEPT !.status = "RUNNING"] ELSE jobs[j]]

\* The jobs table as build_updates_response leaves it: the two queries select,
\* nothing is added to the session, changed or committed.
RowsAfterRead(executor_id) == jobs

\* The ids of the rows in the response's two lists.
build_updates_response(executor_id) ==
    [jobs |-> get_jobs_in_queue(executor_id),
     endpoints |-> get_endpoints_for_executor_by_status(executor_id, "Deploying")]

(***************************************************************************)
(* api/executors.py get_updates and rabbitmq.py                            *)
(* wait_for_executor_notification: one action for each await of the        *)
(* coroutine.  A poll's phase names the await it is suspended in.          *)
(***************************************************************************)
TimeoutParams == Opt({0 - 5, 0, 20, 120})   \* None: the query has no timeout
MaxClock == MaxWaitSeconds + 1           \* the clock stops counting here
SetupPhases == {"channel", "declare", "consume"}

\* A request that has not been made yet.
IdlePoll ==
    [phase |-> "idle", executor |-> 0, timeout |-> None, waited |-> 0, elapsed |-> 0,
     chan |-> FALSE, consumer |-> FALSE, pending |-> 0, received |-> FALSE, ret |-> FALSE,
     raised |-> "no", code |-> 0, jobs |-> {}, endpoints |-> {},
     notified |-> FALSE, njobs |-> 0]

TransportPhases == {"channel", "declare", "consume", "cancel", "close"}
ActivePhases == TransportPhases \cup {"called", "waiting"}

\* The request ends: an unhandled exception is a 500 with no body, otherwise
\* the response is what build_updates_response reads now.
Respond(poll) ==
    [IdlePoll EXCEPT !.phase = "done", !.executor = poll.executor, !.code = 200,
                     !.ret = poll.ret,
                     !.jobs = build_updates_response(poll.executor).jobs,
                     !.endpoints = build_updates_response(poll.executor).endpoints]

Raise(poll, where) ==
    [IdlePoll EXCEPT !.phase = "done", !.executor = poll.executor, !.code = 500,
                     !.raised = where, !.chan = poll.chan, !.consumer = poll.consumer]


\* GET /executors/updates?timeout= arrives: the executor is authenticated and
\* the query parameter parsed.
get_updates(p, executor, timeout) ==
    /\ polls[p].phase \in {"idle", "done"}
    /\ polls' = [polls EXCEPT ![p] =
                   [IdlePoll EXCEPT !.phase = "called", !.executor = executor,
                                    !.timeout = timeout, !.njobs = Len(jobs)]]
    /\ UNCHANGED <<store, last, broker, queues, handed, gpu>>

\* The handler's body up to its first await:
\*   conn = getattr(request.app.state, "rabbitmq", None)
\*   if conn and wait_seconds > 0: await wait_for_executor_notification(...)
\*   return build_updates_response(db, executor.id)
start_wait(p) ==
    /\ polls[p].phase = "called"
    /\ IF broker # "none" /\ WaitSeconds(polls[p].timeout) > 0
       THEN /\ polls' = [polls EXCEPT ![p].phase = "channel"]
            /\ UNCHANGED jobs
       ELSE /\ polls' = [polls EXCEPT ![p] = Respond(@)]
            /\ jobs' = RowsAfterRead(polls[p].executor)
    /\ UNCHANGED <<endpoints, last, broker, queues, handed, gpu>>

\* channel = await connection.channel()
open_channel(p) ==
    /\ polls[p].phase = "channel"
    /\ broker \in {"up", "down"}
    /\ polls' = [polls EXCEPT ![p] =
                   IF broker = "up"
                   THEN [@ EXCEPT !.phase = "declare", !.chan = TRUE]
                   ELSE Raise(@, "channel")]
    /\ UNCHANGED <<store, last, broker, queues, handed, gpu>>

\* queue = await channel.declare_queue(queue_name, durable=False, auto_delete=True)
declare_queue(p) ==
    /\ polls[p].phase = "declare"
    /\ broker \in {"up", "down"}
    /\ IF broker = "up"
       THEN /\ polls' = [polls EXCEPT ![p].phase = "consume"]
            /\ queues' = [queues EXCEPT ![polls[p].executor].exists = TRUE]
       ELSE /\ polls' = [polls EXCEPT ![p] = Raise(@, "declare")]
            /\ UNCHANGED queues
    /\ UNCHANGED <<store, last, broker, handed, gpu>>

\* consumer_tag = await queue.consume(on_message, no_ack=False)
\* The broker refuses a consumer on a queue that was deleted meanwhile and
\* closes the channel.
consume(p) ==
    /\ polls[p].phase = "consume"
    /\ broker \in {"up", "down"}
    /\ polls' = [polls EXCEPT ![p] =
                   IF broker = "up" /\ queues[polls[p].executor].exists
                   THEN [@ EXCEPT !.phase = "waiting", !.consumer = TRUE,
                                  !.pending = queues[polls[p].executor].msgs]
                   ELSE IF broker = "up"
                   THEN [Raise(@, "consume") EXCEPT !.chan = FALSE]
                   ELSE Raise(@, "consume")]
    /\ queues' = [queues EXCEPT ![polls[p].executor].msgs =
                     IF broker = "up" /\ queues[polls[p].executor].exists THEN 0 ELSE @]
    /\ UNCHANGED <<store, last, broker, handed, gpu>>

\* async def on_message(message): a message the broker handed to this
\* consumer is acked and the event set.
on_message(p) ==
    /\ broker = "up"
    /\ polls[p].consumer
    /\ polls[p].pending > 0
    /\ polls' = [polls EXCEPT ![p].pending = @ - 1, ![p].received = TRUE]
    /\ UNCHANGED <<store, last, broker, queues, handed, gpu>>

\* await asyncio.wait_for(got_message.wait(), timeout) returns: the event is set
wait_returns(p) ==
    /\ polls[p].phase = "waiting"
    /\ polls[p].received
    /\ polls' = [polls EXCEPT ![p].phase = "cancel", ![p].ret = polls[p].received]
    /\ UNCHANGED <<store, last, broker, queues, handed, gpu>>

\* asyncio.wait_for raises TimeoutError: timeout seconds passed, event not set
wait_timeout(p) ==
    /\ polls[p].phase = "waiting"
    /\ ~polls[p].received
    /\ polls[p].waited >= WaitSeconds(polls[p].timeout)
    /\ polls' = [polls EXCEPT ![p].phase = "cancel", ![p].ret = FALSE]
    /\ UNCHANGED <<store, last, broker, queues, handed, gpu>>

\* finally: await queue.cancel(consumer_tag)
cancel_consumer(p) ==
    /\ polls[p].phase = "cancel"
    /\ broker \in {"up", "down"}
    /\ IF broker = "up"
       THEN /\ polls' = [polls EXCEPT ![p].phase = "close", ![p].consumer = FALSE]
            /\ queues' = [queues EXCEPT ![polls[p].executor] =
                            IF Consumers(polls[p].executor) \subseteq {p} THEN NoQueue ELSE @]
       ELSE /\ polls' = [polls EXCEPT ![p] = Raise(@, "cancel")]
            /\ UNCHANGED queues
    /\ UNCHANGED <<store, last, broker, handed, gpu>>

\* finally: await channel.close(); then get_updates builds the response.
\* The broker requeues what the channel had not acked, if the queue is there.
close_channel(p) ==
    /\ polls[p].phase = "close"
    /\ broker \in {"up", "down"}
    /\ IF broker = "up"
       THEN LET x == polls[p].executor
                closed == [polls EXCEPT ![p] = Respond([@ EXCEPT !.chan = FALSE])]
            IN  /\ \E c \in Receivers(x) :
                      IF c = 0
                      THEN /\ polls' = closed
                           /\ queues' = [queues EXCEPT ![x].msgs =
                                            IF queues[x].exists
                                            THEN @ + polls[p].pending ELSE @]
                      ELSE /\ polls' = Deliver(closed, c, polls[p].pending)
                           /\ UNCHANGED queues
                /\ jobs' = RowsAfterRead(x)
       ELSE /\ polls' = [polls EXCEPT ![p] = Raise(@, "close")]
            /\ UNCHANGED <<jobs, queues>>
    /\ UNCHANGED <<endpoints, last, broker, handed, gpu>>

(***************************************************************************)
(* Time and the environment                                                *)
(***************************************************************************)
Waiting == {p \in DOMAIN polls : polls[p].phase = "waiting"}
Remaining(p) == WaitSeconds(polls[p].timeout) - polls[p].waited

\* Steps that take no time: an operation on a connection that answers or
\* raises, a wait_for whose event is set or whose timer is due, a message the
\* broker can hand to a consumer.
Urgent ==
    \/ \E p \in DOMAIN polls : polls[p].phase = "called"
    \/ \E p \in DOMAIN polls : polls[p].phase \in TransportPhases /\ broker # "stalled"
    \/ \E p \in Waiting : polls[p].received \/ Remaining(p) <= 0
    \/ \E p \in DOMAIN polls : broker = "up" /\ polls[p].consumer /\ polls[p].pending > 0

RECURSIVE MinRemaining(_)
MinRemaining(S) ==
    IF S = {} THEN TickSeconds
    ELSE LET p == CHOOSE q \in S : TRUE
         IN  Min(Remaining(p), MinRemaining(S \ {p}))

\* Time passes for every request in flight, up to the next timer that is due.
Tick ==
    /\ \E p \in DOMAIN polls : polls[p].phase \in ActivePhases
    /\ ~Urgent
    /\ LET d == Min(TickSeconds, MinRemaining(Waiting))
       IN  polls' = [p \in DOMAIN polls |->
                       IF polls[p].phase \in ActivePhases
                       THEN [polls[p] EXCEPT
                               !.elapsed = Min(@ + d, MaxClock),
                               !.waited = IF polls[p].phase = "waiting" THEN @ + d ELSE @]
                       ELSE polls[p]]
    /\ UNCHANGED <<store, last, broker, queues, handed, gpu>>

\* The connection to the broker is lost or stops answering.
broker_changes(state) ==
    /\ broker = "up"
    /\ broker' = state
    /\ UNCHANGED <<store, last, queues, polls, handed, gpu>>


(***************************************************************************)
(* services/gpu_worker_service.py: one GPU node, its GPU instances and the *)
(* gpu_jobs assigned to it                                                 *)
(***************************************************************************)
MaxGpuJobs == 3          \* gpu_jobs rows created
NumGpuInstances == 2     \* GPU instances of the node
MaxConcurrentJobs == 2   \* the node's max_concurrent_jobs

GpuJobIds == 1..(MaxGpuJobs + 1)   \* the last one never exists
GpuStatusInputs == {"running", "completed", "failed", "cancelled"}
GpuTerminal == {"completed", "failed", "cancelled"}

\* The node is registered, active and healthy; no job was created yet.
NewGpu == [jobs |-> <<>>, current_jobs |-> 0, busy |-> 0]

\* _schedule_job(job): the node takes the job when it is below its
\* max_concurrent_jobs and has an available GPU instance.
_schedule_job(g, job_id) ==
    IF g.current_jobs < MaxConcurrentJobs /\ g.busy < NumGpuInstances
    THEN [g EXCEPT !.jobs[job_id] = [status |-> "scheduled", assigned |-> TRUE],
                   !.busy = @ + 1,
                   !.current_jobs = @ + 1]
    ELSE g

\* create_gpu_job: the row is added with status "pending", then scheduled.
create_gpu_job ==
    /\ gpu' = _schedule_job([gpu EXCEPT !.jobs = Append(@, [status |-> "pending",
                                                           assigned |-> FALSE])],
                            Len(gpu.jobs) + 1)
    /\ last' = Outcome("create_gpu_job", 0, Len(gpu.jobs) + 1, 200, {})
    /\ UNCHANGED <<store, transport, handed>>

\* update_job_status(job_id, status_update): job.status is assigned first, and
\* the node's count is adjusted afterwards by comparing the reported status
\* with job.status.
update_job_status(g, job_id, status) ==
    LET job == [g.jobs[job_id] EXCEPT !.status = status]
        current_jobs ==
            IF ~job.assigned THEN g.current_jobs
            ELSE IF status = "running" /\ job.status # "running"
            THEN g.current_jobs + 1
            ELSE IF status \in GpuTerminal /\ job.status = "running"
            THEN Max(0, g.current_jobs - 1)
            ELSE g.current_jobs
    IN  [g EXCEPT !.jobs[job_id] = job, !.current_jobs = current_jobs]

\* A GPU node reports the status of a job.
gpu_update_job_status(job_id, status) ==
    /\ IF job_id \notin DOMAIN gpu.jobs
       THEN /\ last' = Outcome("gpu_update_job_status", 0, job_id, 404, {})
            /\ UNCHANGED gpu
       ELSE /\ gpu' = update_job_status(gpu, job_id, status)
            /\ last' = Outcome("gpu_update_job_status", 0, job_id, 200, {})
    /\ UNCHANGED <<store, transport, handed>>

(***************************************************************************)
(* Specification of the job table                                          *)
(***************************************************************************)
InitStore ==
    /\ jobs = <<>>
    /\ handed = {}
    /\ gpu = NewGpu
    /\ endpoints \in [EndpointIds -> [executor_id : Executors,
                                      status : {"Deploying"},
                                      user_id : {1}]]
    /\ last = Outcome("none", 0, 0, 0, {})
    /\ queues = [x \in Executors |-> NoQueue]

\* The job table alone: no broker is configured and no long-poll is made.
Init ==
    /\ InitStore
    /\ broker = "none"
    /\ polls = <<>>

Next ==
    \/ /\ Len(jobs) < MaxJobs
       /\ \E u \in Users, e \in EndpointIds, i \in InputValues : run_job(u, e, i)
    \/ \E u \in Users, e \in EndpointIds, j \in JobIds : cancel_job(u, e, j)
    \/ \E x \in Executors, j \in JobIds, b \in ExecutorJobUpdateRequest : update_job(x, j, b)
    \/ \E x \in Executors, p \in PodIds, n \in Opt(BatchSizes) : job_take_single(p, n, x)
    \/ \E x \in Executors, p \in PodIds, n \in BatchSizes : job_take_batch(p, n, x)
    \/ \E x \in Executors, p \in PodIds, j \in JobIdParams, b \in JobDoneBodies :
           job_done(p, j, b, x)
    \/ \E x \in Executors, p \in PodIds, j \in JobIdParams, b \in JobDoneBodies :
           job_stream(p, j, b, x)
    \/ \E u \in Users, e \in EndpointIds, j \in JobIds : get_job_status(u, e, j)

Spec == Init /\ [][Next]_vars

(***************************************************************************)
(* Specification of the long-poll: jobs are submitted and move on while    *)
(* executors poll, over a broker that may fail.                            *)
(***************************************************************************)
\* Status reports made while polls are in flight.
PollUpdateRequests ==
    {[status |-> Some(s), delay_time |-> None, execution_time |-> None, output_data |-> None] :
        s \in {"RUNNING"}}

InitPoll ==
    /\ jobs = <<>>
    /\ handed = {}
    /\ gpu = NewGpu
    /\ endpoints \in {f \in [EndpointIds -> [executor_id : Executors,
                                              status : {"Deploying", "READY"},
                                              user_id : {1}]] :
                         /\ f[1].executor_id = 1 /\ f[1].status = "Deploying"
                         /\ f[2].executor_id = 1 <=> f[2].status = "READY"}
    /\ last = Outcome("none", 0, 0, 0, {})
    /\ queues = [x \in Executors |-> NoQueue]
    /\ broker \in {"none", "up"}
    /\ polls = <<IdlePoll>>

NextPoll ==
    \/ /\ Len(jobs) < MaxQueued
       /\ \E e \in EndpointIds, i \in InputValues : run_job(1, e, i)
    \/ \E j \in DOMAIN jobs, b \in PollUpdateRequests :
          update_job(jobs[j].executor_id, j, b)
    \/ \E p \in DOMAIN polls, x \in Executors, t \in TimeoutParams : get_updates(p, x, t)
    \/ \E p \in DOMAIN polls : start_wait(p)
    \/ \E p \in DOMAIN polls : open_channel(p)
    \/ \E p \in DOMAIN polls : declare_queue(p)
    \/ \E p \in DOMAIN polls : consume(p)
    \/ \E p \in DOMAIN polls : on_message(p)
    \/ \E p \in DOMAIN polls : wait_returns(p)
    \/ \E p \in DOMAIN polls : wait_timeout(p)
    \/ \E p \in DOMAIN polls : cancel_consumer(p)
    \/ \E p \in DOMAIN polls : close_channel(p)
    \/ Tick
    \/ \E b \in {"down", "stalled"} : broker_changes(b)

SpecPoll == InitPoll /\ [][NextPoll]_vars

(***************************************************************************)
(* Specification of the reads: jobs and endpoints change while executors   *)
(* poll without a broker connection.                                       *)
(***************************************************************************)
InitRead ==
    /\ InitStore
    /\ broker = "none"
    /\ polls = <<IdlePoll>>

NextRead ==
    \/ /\ Len(jobs) < MaxQueued
       /\ \E e \in EndpointIds, i \in InputValues : run_job(1, e, i)
    \/ \E x \in Executors, j \in DOMAIN jobs, b \in PollUpdateRequests : update_job(x, j, b)
    \/ \E x \in Executors, e \in EndpointIds, st \in EndpointStatus :
          update_endpoint_status(e, st, x)
    \/ \E p \in DOMAIN polls, x \in Executors, t \in TimeoutParams : get_updates(p, x, t)
    \/ \E p \in DOMAIN polls : start_wait(p)

SpecRead == InitRead /\ [][NextRead]_vars

(***************************************************************************)
(* Specification of concurrent waiters: several polls are in flight at     *)
(* once over a broker that stays up.                                       *)
(***************************************************************************)
InitWake ==
    /\ InitStore
    /\ broker = "up"
    /\ polls = [p \in 1..NumPolls |-> IdlePoll]

NextWake ==
    \/ /\ Len(jobs) < MaxJobs
       /\ \E e \in EndpointIds, i \in InputValues : run_job(1, e, i)
    \/ \E p \in DOMAIN polls, x \in Executors, t \in TimeoutParams : get_updates(p, x, t)
    \/ \E p \in DOMAIN polls : start_wait(p)
    \/ \E p \in DOMAIN polls : open_channel(p)
    \/ \E p \in DOMAIN polls : declare_queue(p)
    \/ \E p \in DOMAIN polls : consume(p)
    \/ \E p \in DOMAIN polls : on_message(p)
    \/ \E p \in DOMAIN polls : wait_returns(p)
    \/ \E p \in DOMAIN polls : wait_timeout(p)
    \/ \E p \in DOMAIN polls : cancel_consumer(p)
    \/ \E p \in DOMAIN polls : close_channel(p)
    \/ Tick

SpecWake == InitWake /\ [][NextWake]_vars

\* Endpoints that change hands: jobs are submitted, the endpoints are assigned to
\* other executors, and the executors take jobs and poll without a broker.
InitAssign ==
    /\ InitStore
    /\ broker = "none"
    /\ polls = <<IdlePoll>>

NextAssign ==
    \/ /\ Len(jobs) < MaxQueued
       /\ \E u \in Users, e \in EndpointIds, i \in InputValues : run_job(u, e, i)
    \/ \E u \in Users, e \in EndpointIds, x \in Executors : reassign_endpoint(u, e, x)
    \/ \E x \in Executors, j \in DOMAIN jobs, b \in PollUpdateRequests : update_job(x, j, b)
    \/ \E p \in DOMAIN polls, x \in Executors, t \in TimeoutParams : get_updates(p, x, t)
    \/ \E p \in DOMAIN polls : start_wait(p)

SpecAssign == InitAssign /\ [][NextAssign]_vars

\* A job between its client and its executor: the client submits and cancels,
\* the executor's workers take the job and report on it.
ReportRequests ==
    {[status |-> Some(st), delay_time |-> None, execution_time |-> None, output_data |-> o] :
        st \in {"RUNNING", "COMPLETED", "FAILED"}, o \in Opt(OutputValues)}

NextRace ==
    \/ /\ Len(jobs) < MaxJobs
       /\ \E e \in EndpointIds, i \in InputValues : run_job(1, e, i)
    \/ \E e \in EndpointIds, j \in DOMAIN jobs : cancel_job(1, e, j)
    \/ \E x \in Executors, j \in DOMAIN jobs, b \in ReportRequests : update_job(x, j, b)
    \/ \E x \in Executors, p \in EndpointIds : job_take_single(p, None, x)
    \/ \E x \in Executors, p \in EndpointIds, j \in DOMAIN jobs,
          b \in JobDoneBodies \ {None} : job_done(p, Some(ToString(j)), b, x)

SpecRace == Init /\ [][NextRace]_vars

\* The queue of an endpoint and the workers that drain it.
NextTake ==
    \/ /\ Len(jobs) < MaxQueued
       /\ \E e \in EndpointIds, i \in InputValues : run_job(1, e, i)
    \/ \E e \in EndpointIds, j \in DOMAIN jobs : cancel_job(1, e, j)
    \/ \E x \in Executors, p \in PodIds, n \in Opt(BatchSizes) : job_take_single(p, n, x)
    \/ \E x \in Executors, p \in PodIds, n \in BatchSizes : job_take_batch(p, n, x)

SpecTake == Init /\ [][NextTake]_vars

\* The GPU node: jobs are created and scheduled, the node reports on them.
NextGpu ==
    \/ Len(gpu.jobs) < MaxGpuJobs /\ create_gpu_job
    \/ \E j \in GpuJobIds, st \in GpuStatusInputs : gpu_update_job_status(j, st)

SpecGpu == Init /\ [][NextGpu]_vars

(***************************************************************************)
(* Claims about the job table (specification Spec)                         *)
(***************************************************************************)
ExecutorStatusUpdateOps == {"update_job", "job_done"}

\* C1: an executor job update (PATCH /executors/job/{id}) issued by an
\* executor on a job that belongs to another executor answers 404, exactly as
\* it does for a job id that does not exist, and leaves the jobs table (the
\* job's status, output, delay_time and execution_time) as it was.
C1_OwnershipIsolation ==
    [][last'.op = "update_job" /\ last' # last
         => /\ last'.job \notin DOMAIN jobs
                 => last'.code = 404 /\ jobs' = jobs
            /\ (last'.job \in DOMAIN jobs /\ jobs[last'.job].executor_id # last'.who)
                 => last'.code = 404 /\ last'.ret = {} /\ jobs' = jobs]_vars

C1_Witness ==
    /\ last.op = "update_job"
    /\ last.code = 404
    /\ last.job \in DOMAIN jobs
    /\ jobs[last.job].executor_id # last.who

\* C2: once a job's status is COMPLETED, FAILED or CANCELLED, no later
\* status update by an executor (PATCH /executors/job/{id} or
\* POST /runpod/job-done) changes its status or its output.
C2_TerminalFinality ==
    [][\A j \in DOMAIN jobs :
          (jobs[j].status \in {"COMPLETED", "FAILED", "CANCELLED"}
             /\ last'.op \in ExecutorStatusUpdateOps)
          => /\ jobs'[j].status = jobs[j].status
             /\ jobs'[j].output_data = jobs[j].output_data]_vars

ExecutorTransitions ==
    {<<"IN_QUEUE", "RUNNING">>, <<"RUNNING", "COMPLETED">>, <<"RUNNING", "FAILED">>}
\* What tests/test_combined_functional.py test_process_job does with a job it
\* got from the long-poll: it reports the result without reporting RUNNING.
DirectReports ==
    {<<"IN_QUEUE", "COMPLETED">>, <<"IN_QUEUE", "FAILED">>}
ClientTransitions ==
    {<<"IN_QUEUE", "CANCELLED">>, <<"RUNNING", "CANCELLED">>}

\* C9: every change of a job's status is one of the canonical transitions:
\* IN_QUEUE->RUNNING, RUNNING->COMPLETED, RUNNING->FAILED made by an executor
\* operation (job update, job-take, job-done), IN_QUEUE->CANCELLED and
\* RUNNING->CANCELLED made by the client's cancel; no other change occurs.
\* The formula is weaker than this sentence: it also lets pass the direct
\* reports IN_QUEUE->COMPLETED and IN_QUEUE->FAILED that the functional test
\* makes, so a step that violates it violates the sentence as well.
C9_CanonicalTransitions ==
    [][\A j \in DOMAIN jobs :
          jobs'[j].status # jobs[j].status
          => IF last'.op = "cancel_job"
             THEN <<jobs[j].status, jobs'[j].status>> \in ClientTransitions
             ELSE <<jobs[j].status, jobs'[j].status>>
                      \in ExecutorTransitions \cup DirectReports]_vars

ExecutorWritableStatuses == {"RUNNING", "COMPLETED", "FAILED"}

\* C10: an executor's job update writes no status other than RUNNING,
\* COMPLETED or FAILED: a request carrying any other status leaves the job as
\* it was, and every job's status is always one of IN_QUEUE, RUNNING,
\* COMPLETED, FAILED, CANCELLED, TIMED_OUT.
C10_ExecutorStatusValues ==
    [][/\ \A x \in Executors, j \in JobIds, b \in ExecutorJobUpdateRequest :
            (b.status # None /\ Val(b.status) \notin ExecutorWritableStatuses
               /\ update_job(x, j, b))
            => jobs' = jobs
       /\ \A j \in DOMAIN jobs' : jobs'[j].status \in JobStatusEnum]_vars

(***************************************************************************)
(* Claims about the long-poll (specifications SpecPoll and SpecWake)       *)
(***************************************************************************)
\* The request of slot p ends in this step.
Ends(p) == polls[p].phase # "done" /\ polls'[p].phase = "done"
\* The step belongs to the request of slot p.
PollStep(p) ==
    polls'[p].phase # polls[p].phase \/ polls'[p].pending < polls[p].pending

\* C3: a job submitted for executor X before X's long-poll with timeout
\* T >= 0 was called is in the poll's result, whether the poll returns
\* through a wake-up or through its timeout, and in particular for T = 0.
\* The formula is weaker than this sentence: it asks for the job only if the
\* job is still IN_QUEUE when the request ends, so a step that violates it
\* violates the sentence as well.
C3_SubmittedJobVisible ==
    [][\A p \in DOMAIN polls :
          (Ends(p) /\ polls[p].timeout # None /\ Val(polls[p].timeout) >= 0)
          => \A j \in 1..polls[p].njobs :
                (jobs[j].executor_id = polls[p].executor /\ jobs[j].status = "IN_QUEUE")
                => polls'[p].code = 200 /\ j \in polls'[p].jobs]_vars

\* C4: when several long-polls of one executor are waiting and a
\* notification for that executor is published, every one of them is woken:
\* none of the waiters that were waiting at the publish runs into its timeout.
C4_BroadcastWake ==
    [][\A p \in DOMAIN polls :
          (polls[p].phase = "waiting" /\ polls[p].notified /\ polls'[p].phase = "cancel")
          => polls'[p].ret]_vars

\* C5: every long-poll terminates for every timeout value: a request that
\* has not answered yet has been in flight for at most min(max(0, timeout), 60)
\* seconds, also when no notification is published and when channel setup or
\* consumer cleanup stalls.
C5_BoundedWait ==
    \A p \in DOMAIN polls :
        polls[p].phase \in ActivePhases
        => polls[p].elapsed <= Min(Max(0, IF polls[p].timeout = None
                                          THEN DefaultTimeout
                                          ELSE Val(polls[p].timeout)), MaxWaitSeconds)

\* C6: when the transport is unavailable while the wait is set up (there is
\* no connection object, or the connection cannot open a channel, declare the
\* queue or register the consumer), a long-poll with timeout > 0 answers at
\* once with the snapshot and status 200: no error reaches the caller.
C6_UnavailableTransportDegrades ==
    [][\A p \in DOMAIN polls :
          (/\ polls[p].phase \in {"called"} \cup SetupPhases
           /\ broker \in {"none", "down"}
           /\ Ends(p)
           /\ polls[p].timeout # None /\ Val(polls[p].timeout) > 0)
          => /\ polls'[p].code = 200
             /\ polls[p].elapsed = 0]_vars

\* C7: a long-poll has no side effect on the store: no step of the request
\* changes a job (it does not mark the jobs it returns as claimed) or an
\* endpoint, and the result it returns is what the store it leaves behind
\* holds for the executor, which is what the executor's next poll returns if
\* nothing is changed in between.
C7_PollHasNoSideEffect ==
    [][\A p \in DOMAIN polls :
          PollStep(p)
          => /\ jobs' = jobs
             /\ endpoints' = endpoints
             /\ (Ends(p) /\ polls'[p].code = 200)
                  => /\ polls'[p].jobs = (build_updates_response(polls[p].executor).jobs)'
                     /\ polls'[p].endpoints
                          = (build_updates_response(polls[p].executor).endpoints)']_vars

C7_Witness ==
    \E p \in DOMAIN polls :
        /\ polls[p].phase = "done" /\ polls[p].code = 200
        /\ polls[p].jobs # {}
        /\ polls[p].endpoints # {}
        /\ \E j \in DOMAIN jobs : jobs[j].status = "RUNNING"
        /\ polls[p].jobs = build_updates_response(polls[p].executor).jobs
        /\ \A j \in polls[p].jobs : jobs[j].status = "IN_QUEUE"

\* The statuses of an endpoint that is deploying: the one build_updates_response
\* asks for and the one PATCH /executors/endpoints/{id} accepts.
DeployingState == {"Deploying", "DEPLOYING"}

\* C8: the result of a long-poll by executor X is the store's state at the
\* read that follows the wait: exactly the jobs with executor_id = X and
\* status IN_QUEUE and exactly the endpoints with executor_id = X that are in
\* the Deploying state, whatever happened to the notifications; it never
\* holds a job or an endpoint of another executor.
C8_ResultIsOwnSnapshot ==
    [][\A p \in DOMAIN polls :
          (Ends(p) /\ polls'[p].code = 200)
          => /\ polls'[p].jobs =
                  {j \in DOMAIN jobs : /\ jobs[j].executor_id = polls[p].executor
                                       /\ jobs[j].status = "IN_QUEUE"}
             /\ polls'[p].endpoints =
                  {e \in DOMAIN endpoints : /\ endpoints[e].executor_id = polls[p].executor
                                            /\ endpoints[e].status \in DeployingState}]_vars

\* C11: a long-poll of executor X with timeout > 0 that is waiting, no job
\* existing when it was called, while a job is submitted to an endpoint of X
\* returns before its timeout has elapsed, with a result that contains the
\* new job (as long as the job is still IN_QUEUE at the read).
C11_WakeBySubmit ==
    [][\A p \in DOMAIN polls :
          (Ends(p) /\ polls[p].notified /\ polls[p].njobs = 0)
          => /\ polls[p].waited < WaitSeconds(polls[p].timeout)
             /\ polls'[p].code = 200
             /\ \A j \in DOMAIN jobs :
                   (jobs[j].executor_id = polls[p].executor /\ jobs[j].status = "IN_QUEUE")
                   => j \in polls'[p].jobs]_vars

\* C12: a POST /runpod/job-done request that is answered with an error (400,
\* or 404, also the 404 given when the job's endpoint is not the pod's
\* endpoint) leaves every job's status and output as they were before the
\* request.
C12_FailedJobDoneLeavesJob ==
    [][(last'.op = "job_done" /\ last' # last /\ last'.code \in {400, 404})
         => \A j \in DOMAIN jobs :
               /\ jobs'[j].status = jobs[j].status
               /\ jobs'[j].output_data = jobs[j].output_data]_vars

\* C13: no operation of an executor (PATCH /executors/job, job-take,
\* job-take-batch, job-done, job-stream) changes the executor_id, the endpoint_id
\* or the input of a job that exists.
ExecutorOps == {"update_job", "job_take_single", "job_take_batch", "job_done", "job_stream"}

C15_ReportIdempotent ==
    \A x \in Executors, j \in DOMAIN jobs :
        /\ \A b \in ExecutorJobUpdateRequest :
              LET first == update_job_for_executor(jobs, x, j,
                               b.status, b.delay_time, b.execution_time, b.output_data)
                  again == update_job_for_executor(first.jobs, x, j,
                               b.status, b.delay_time, b.execution_time, b.output_data)
              IN  first.job # None => (again.job # None /\ again.jobs = first.jobs)
        /\ \A b \in JobDoneBodies \ {None} :
              LET st == IF Val(b).error THEN "FAILED" ELSE "COMPLETED"
                  first == update_job_for_executor(jobs, x, j,
                               Some(st), None, None, Val(b).output)
                  again == update_job_for_executor(first.jobs, x, j,
                               Some(st), None, None, Val(b).output)
              IN  first.job # None
                  => /\ again.job # None
                     /\ again.jobs = first.jobs
                     /\ first.jobs[j].endpoint_id = jobs[j].endpoint_id

\* A report with a status, an execution time and an output was applied.
C15_Witness ==
    /\ last.op = "update_job"
    /\ last.code = 200
    /\ jobs[last.job].status = "FAILED"
    /\ jobs[last.job].execution_time \in TimeValues
    /\ jobs[last.job].output_data # None

\* C16: when the owning executor's report with status COMPLETED, an output and a
\* delay_time has succeeded, the job a client reads has status COMPLETED, that
\* output and that delay_time; and the status read answers with the stored job
\* and changes nothing.
C16_ClientReadsReport ==
    [][/\ (last'.op = "update_job" /\ last'.code = 200)
            => \A b \in ExecutorJobUpdateRequest :
                  ( /\ b.status = Some("COMPLETED")
                    /\ b.output_data # None
                    /\ b.delay_time # None
                    /\ update_job_for_executor(jobs, last'.who, last'.job, b.status,
                           b.delay_time, b.execution_time, b.output_data).jobs = jobs' )
                  => LET read == JobStatusResponse(jobs', last'.job)
                     IN  /\ read.status = "COMPLETED"
                         /\ read.output = b.output_data
                         /\ read.delay_time = Val(b.delay_time)
       /\ (last'.op = "get_job_status" /\ last'.code = 200)
            => /\ jobs' = jobs
               /\ last'.ret = {JobStatusResponse(jobs, last'.job)}]_vars

\* The client has read a job that is COMPLETED with an output and a delay_time.
C16_Witness ==
    /\ last.op = "get_job_status"
    /\ last.code = 200
    /\ \E r \in last.ret :
          /\ r.status = "COMPLETED"
          /\ r.output \in {Some(o) : o \in OutputValues}
          /\ r.delay_time \in TimeValues

\* C17: the first step of a long-poll whose request has no timeout parameter
\* answers the request: the poll does not wait on the notification channel.
C17_AbsentTimeoutImmediate ==
    [][\A p \in DOMAIN polls :
          (polls[p].timeout = None /\ polls[p].phase = "called" /\ PollStep(p))
          => (polls'[p].phase = "done" /\ polls'[p].code = 200)]_vars

\* C17 as the code has it: a long-poll without the timeout parameter behaves
\* like timeout=20.  It answers at once only when no broker connection is
\* configured; with a connection it sets up the wait, waits for a notification
\* for at most 20 seconds, and its wait times out after exactly 20 seconds.
C17_AbsentTimeoutIsDefault ==
    [][\A p \in DOMAIN polls :
          polls[p].timeout = None
          => /\ (polls[p].phase = "called" /\ PollStep(p))
                  => IF broker = "none"
                     THEN polls'[p].phase = "done" /\ polls'[p].code = 200
                     ELSE polls'[p].phase = "channel"
             /\ polls[p].phase = "waiting" => polls[p].waited <= DefaultTimeout
             /\ (polls[p].phase = "waiting" /\ polls'[p].phase = "cancel"
                   /\ ~polls[p].received)
                  => polls[p].waited = DefaultTimeout]_vars

\* A poll without the timeout parameter has waited its 20 seconds out.
C17_Witness ==
    \E p \in DOMAIN polls :
        /\ polls[p].timeout = None
        /\ polls[p].phase = "cancel"
        /\ polls[p].waited = DefaultTimeout
        /\ ~polls[p].received

\* C18: in every reachable state a job that has an output has status COMPLETED
\* or FAILED: no update of an executor leaves an IN_QUEUE or RUNNING job with
\* an output.
C18_OutputOnlyWhenFinished ==
    \A j \in DOMAIN jobs :
        jobs[j].output_data # None => jobs[j].status \in {"COMPLETED", "FAILED"}

\* C19: a submission whose notify fails because the broker connection is lost
\* is answered like any other: the job row is there with status IN_QUEUE and
\* the call returns the job with status 200.
C19_NotifyFailureSwallowed ==
    [][(last'.op = "run_job" /\ last'.code # 404 /\ PublishRaises
          /\ (last' # last \/ jobs' # jobs))
         => /\ Len(jobs') = Len(jobs) + 1
            /\ jobs'[Len(jobs')].status = "IN_QUEUE"
            /\ \A j \in DOMAIN jobs : jobs'[j] = jobs[j]
            /\ last'.code = 200
            /\ last'.job = Len(jobs')]_vars

\* The only submission so far was made with the connection lost: a publish that
\* went through would have left the queue declared, and no poll has run that
\* could have deleted it.
C19_Witness ==
    /\ broker = "down"
    /\ polls = <<IdlePoll>>
    /\ \A x \in Executors : queues[x] = NoQueue
    /\ last.op = "run_job"
    /\ last.code = 200
    /\ Len(jobs) = 1
    /\ jobs[1].status = "IN_QUEUE"

\* C20: a cancel that finds the job answers 200; it makes the job CANCELLED when
\* the job is IN_QUEUE or RUNNING and leaves a job in any other status, such as
\* COMPLETED, as it is; no other row and no other field changes.
C20_CancelOnlyActiveJobs ==
    [][(last'.op = "cancel_job" /\ last'.code # 404)
         => /\ last'.code = 200
            /\ last'.job \in DOMAIN jobs
            /\ jobs' = [jobs EXCEPT ![last'.job].status =
                          IF jobs[last'.job].status \in {"IN_QUEUE", "RUNNING"}
                          THEN "CANCELLED" ELSE jobs[last'.job].status]]_vars

\* A COMPLETED job was cancelled: the call succeeded and the job is COMPLETED.
C20_Witness ==
    /\ last.op = "cancel_job"
    /\ last.code = 200
    /\ jobs[last.job].status = "COMPLETED"

\* C27: an executor job update mutates only the fields present in the request:
\* in every reachable state of the table and for every request that finds its
\* job, each of status, delay_time, execution_time and output that the request
\* omits keeps its value, each one present takes the request's value, and no
\* other field and no other row changes.
C27_OnlyPresentFieldsChange ==
    \A x \in Executors, j \in DOMAIN jobs, b \in ExecutorJobUpdateRequest :
        LET r == update_job_for_executor(jobs, x, j, b.status, b.delay_time,
                     b.execution_time, b.output_data)
            old == jobs[j]
            new == r.jobs[j]
        IN  r.job # None
            => /\ new.status = IF b.status = None THEN old.status ELSE Val(b.status)
               /\ new.delay_time =
                     IF b.delay_time = None THEN old.delay_time ELSE Val(b.delay_time)
               /\ new.execution_time =
                     IF b.execution_time = None THEN old.execution_time
                     ELSE Val(b.execution_time)
               /\ new.output_data =
                     IF b.output_data = None THEN old.output_data ELSE b.output_data
               /\ new.input_data = old.input_data
               /\ new.executor_id = old.executor_id
               /\ new.endpoint_id = old.endpoint_id
               /\ \A k \in DOMAIN jobs \ {j} : r.jobs[k] = jobs[k]

\* Updates that carried a status, an output and a delay_time but never an
\* execution_time have reached the job: its execution_time is the initial one.
C27_Witness ==
    /\ last.op = "update_job"
    /\ last.code = 200
    /\ jobs[last.job].status = "RUNNING"
    /\ jobs[last.job].output_data # None
    /\ jobs[last.job].delay_time \in TimeValues
    /\ jobs[last.job].execution_time = 0

(***************************************************************************)
(* Claims about addressing (specification SpecAssign)                      *)
(***************************************************************************)
\* C14: a job gets the executor_id its endpoint has when the job is created, no
\* later step changes it, not even the assignment of the endpoint to another
\* executor, and the updates of that executor go on listing the job while it is
\* IN_QUEUE.
C14_AddressingSurvivesReassignment ==
    [][/\ (last'.op = "run_job" /\ Len(jobs') = Len(jobs) + 1)
            => jobs'[Len(jobs')].executor_id
                  = endpoints[jobs'[Len(jobs')].endpoint_id].executor_id
       /\ \A j \in DOMAIN jobs : jobs'[j].executor_id = jobs[j].executor_id
       /\ \A p \in DOMAIN polls :
              (Ends(p) /\ polls'[p].code = 200)
              => polls'[p].jobs = {j \in DOMAIN jobs :
                                     /\ jobs[j].executor_id = polls'[p].executor
                                     /\ jobs[j].status = "IN_QUEUE"}]_vars

\* An executor's updates list a job whose endpoint is by now assigned to the
\* other executor.
C14_Witness ==
    \E p \in DOMAIN polls :
        /\ polls[p].phase = "done"
        /\ polls[p].code = 200
        /\ \E j \in polls[p].jobs :
              /\ j \in DOMAIN jobs
              /\ jobs[j].executor_id = polls[p].executor
              /\ endpoints[jobs[j].endpoint_id].executor_id # polls[p].executor

(***************************************************************************)
(* Claims about the job-take handlers (specification Spec)                 *)
(***************************************************************************)
TakeOps == {"job_take", "job_take_batch"}

\* C21: a job is handed out at most once: a job-take or job-take-batch request
\* returns no job that an earlier job-take request has returned.
C21_HandedOutAtMostOnce ==
    [][(last'.op \in TakeOps /\ last'.code = 200 /\ jobs' # jobs)
         => \A i \in DOMAIN last'.ret : last'.ret[i] \notin handed]_vars

\* C25: job_take_single for pod P by executor X answers 404 and changes nothing
\* when endpoint P is not assigned to X; otherwise it returns the IN_QUEUE job
\* with the lowest id among the jobs of endpoint P and executor X and sets
\* exactly that job to RUNNING, or answers 204 and changes no job when there is
\* none.  This is said of every call, whatever its batch_size.
C25_TakeSingle ==
    [][\A x \in Executors, p \in PodIds, n \in Opt(BatchSizes) :
          job_take_single(p, n, x)
          => LET Q == {j \in DOMAIN jobs : /\ jobs[j].endpoint_id = p
                                           /\ jobs[j].executor_id = x
                                           /\ jobs[j].status = "IN_QUEUE"}
                 lowest == CHOOSE j \in Q : \A k \in Q : j <= k
             IN  IF p \notin DOMAIN endpoints \/ endpoints[p].executor_id # x
                 THEN last'.code = 404 /\ jobs' = jobs
                 ELSE IF Q = {}
                 THEN last'.code = 204 /\ jobs' = jobs
                 ELSE /\ last'.code = 200
                      /\ last'.ret = <<lowest>>
                      /\ jobs' = [jobs EXCEPT ![lowest].status = "RUNNING"]]_vars

\* C25 as the code has it: the same, for the calls made without batch_size or
\* with a batch_size of at most 1; a call with a larger batch_size is handled
\* by job_take_batch and may return, and set to RUNNING, several jobs.
SingleBatchSizes == {n \in Opt(BatchSizes) : n = None \/ Val(n) <= 1}

C25_TakeSingleUnbatched ==
    [][\A x \in Executors, p \in PodIds, n \in SingleBatchSizes :
          job_take_single(p, n, x)
          => LET Q == {j \in DOMAIN jobs : /\ jobs[j].endpoint_id = p
                                           /\ jobs[j].executor_id = x
                                           /\ jobs[j].status = "IN_QUEUE"}
                 lowest == CHOOSE j \in Q : \A k \in Q : j <= k
             IN  IF p \notin DOMAIN endpoints \/ endpoints[p].executor_id # x
                 THEN last'.code = 404 /\ jobs' = jobs
                 ELSE IF Q = {}
                 THEN last'.code = 204 /\ jobs' = jobs
                 ELSE /\ last'.code = 200
                      /\ last'.ret = <<lowest>>
                      /\ jobs' = [jobs EXCEPT ![lowest].status = "RUNNING"]]_vars

\* Of two queued jobs of one endpoint, job-take has returned the first and left
\* the second IN_QUEUE.
C25_Witness ==
    /\ last.op = "job_take"
    /\ last.code = 200
    /\ last.ret = <<1>>
    /\ Len(jobs) = 2
    /\ jobs[1].endpoint_id = jobs[2].endpoint_id
    /\ jobs[1].status = "RUNNING"
    /\ jobs[2].status = "IN_QUEUE"

\* C26: job_take_batch with batch_size b returns, in ascending order of id, the
\* min(n, max(1, b)) lowest IN_QUEUE jobs of the endpoint and executor (n is
\* their number), sets exactly these to RUNNING and leaves every other job as
\* it is; job_take_single called with a batch_size above 1 does the same.
C26_TakeBatch ==
    [][\A x \in Executors, p \in PodIds, b \in BatchSizes :
          (job_take_batch(p, b, x) \/ (b > 1 /\ job_take_single(p, Some(b), x)))
          => LET Q == {j \in DOMAIN jobs : /\ jobs[j].endpoint_id = p
                                           /\ jobs[j].executor_id = x
                                           /\ jobs[j].status = "IN_QUEUE"}
                 m == Min(Cardinality(Q), Max(1, b))
                 ret == last'.ret
                 returned == {ret[i] : i \in DOMAIN ret}
             IN  (p \in DOMAIN endpoints /\ endpoints[p].executor_id = x /\ Q # {})
                 => /\ last'.code = 200
                    /\ Len(ret) = m
                    /\ \A i, k \in DOMAIN ret : i < k => ret[i] < ret[k]
                    /\ returned \subseteq Q
                    /\ \A j \in returned, k \in Q \ returned : j < k
                    /\ jobs' = [j \in DOMAIN jobs |->
                                  IF j \in returned
                                  THEN [jobs[j] EXCEPT !.status = "RUNNING"]
                                  ELSE jobs[j]]]_vars

\* A batch request has returned the two queued jobs of an endpoint in the order
\* of their ids, and both are RUNNING.
C26_Witness ==
    /\ last.op = "job_take_batch"
    /\ last.code = 200
    /\ last.ret = <<1, 2>>
    /\ jobs[1].status = "RUNNING"
    /\ jobs[2].status = "RUNNING"

(***************************************************************************)
(* Claims about concurrent requests                                        *)
(***************************************************************************)
\* C22: the long-poll has no claim or lease step: every long-poll that ends
\* returns each job of its executor that is IN_QUEUE and leaves it IN_QUEUE, so
\* two long-polls of the same executor both return the same job.
C22_PollsShareJobs ==
    [][\A p \in DOMAIN polls :
          Ends(p)
          => \A j \in DOMAIN jobs :
                (jobs[j].executor_id = polls[p].executor /\ jobs[j].status = "IN_QUEUE")
                => (j \in polls'[p].jobs /\ jobs'[j].status = "IN_QUEUE")]_vars

\* C23: between a client's cancel and an executor's report of COMPLETED or
\* FAILED for the same job the last write wins.  A report that succeeds leaves
\* the job with the reported status whatever the status was, CANCELLED
\* included; a cancel that finds the job RUNNING leaves it CANCELLED; a cancel
\* that finds the report already committed writes nothing, and the reported
\* status stays.
TerminalReports == {"COMPLETED", "FAILED"}

C24_NoStaleWaiter ==
    \A p \in DOMAIN polls :
        polls[p].phase = "done" => (~polls[p].chan /\ ~polls[p].consumer)

\* C30: wait_for_executor_notification returns True exactly when its consumer
\* acknowledged a message during the call: whenever the call returns (its
\* channel is closed and the handler goes on to the response), the value
\* returned is True if on_message acked a message and False if it acked none.
C30_TrueIffAcked ==
    [][\A p \in DOMAIN polls :
          (polls[p].phase = "close" /\ polls'[p].phase = "done" /\ polls'[p].code = 200)
             => (polls'[p].ret <=> polls[p].received)]_vars

(***************************************************************************)
(* Claims about endpoint statuses in the long-poll (specification SpecRead) *)
(***************************************************************************)
\* C28: the endpoints list of a long-poll of executor X holds every endpoint of
\* X that X has set to DEPLOYING through PATCH /executors/endpoints/{id}, and
\* none that was set to READY or UNHEALTHY.
C28_DeployingEndpointListed ==
    [][\A p \in DOMAIN polls :
          (Ends(p) /\ polls'[p].code = 200)
          => \A e \in DOMAIN endpoints :
                endpoints[e].executor_id = polls[p].executor
                => /\ endpoints[e].status = "DEPLOYING" => e \in polls'[p].endpoints
                   /\ endpoints[e].status \in {"READY", "UNHEALTHY"}
                         => e \notin polls'[p].endpoints]_vars

(***************************************************************************)
(* Claims about the GPU node (specification SpecGpu)                       *)
(***************************************************************************)
\* C29: the node's current_jobs equals the number of the jobs assigned to it
\* that are not yet completed, failed or cancelled.
C29_NodeJobCount ==
    gpu.current_jobs =
        Cardinality({j \in DOMAIN gpu.jobs :
                        gpu.jobs[j].assigned /\ gpu.jobs[j].status \notin GpuTerminal})
====
